---- MODULE Spec2Model ----
(***************************************************************************)
(* The notebook Project_2_VQE_Molecules/S3_Unitary_Ansatz.ipynb as a state *)
(* machine: one kernel, one global namespace, five code cells.  A cell is  *)
(* run statement by statement; a statement that reads an unbound name or   *)
(* whose library call raises ends the cell there.  The cells may be run in *)
(* any order and any number of times (the recorded execution counts of the *)
(* notebook are 2, 1, 8, 9, 10).                                           *)
(***************************************************************************)
EXTENDS Integers, Sequences, FiniteSets, TLC

VARIABLES user_ns, cell, pc, execution_counter, execution_count, outputs, before

vars == <<user_ns, cell, pc, execution_counter, execution_count, outputs, before>>

\* Number of cell executions explored in one kernel session.
MaxExec == 5

\* threshold = 1e-6, in units of 1e-6.
ThresholdMicro == 1
\* trotter_steps = 1
TrotterSteps == 1
\* geometry=2 (Angstrom) in both calls of get_molecular_data
Geometry == 2
\* H2 in sto-3g: 2 spatial orbitals, 2 electrons (4 qubits: X0 Y1 X2 X3)
NOrbitals == 2
NElectrons == 2
\* n_ents = 1
NEnts == 1

Names == {"np", "tq", "utility", "threshold", "basis", "trotter_steps",
          "xyz_data", "molecule", "H", "U_UCCSD", "E", "result",
          "hf_reference", "n_ents", "ranked_entangler_groupings", "grouping",
          "entanglers", "ent", "U_MF", "U_ENT", "U_QCC", "initial_vals"}

Cells == {"setup", "trotter", "UCC", "QCCrank", "QCCvqe"}

Idle == "idle"

\* The name each statement of each cell binds, in the order of the source.
Targets ==
    [setup   |-> <<"np", "tq", "utility", "threshold", "basis">>,
     trotter |-> <<"trotter_steps">>,
     UCC     |-> <<"xyz_data", "molecule", "H", "U_UCCSD", "E", "result">>,
     QCCrank |-> <<"xyz_data", "molecule", "hf_reference", "H", "n_ents",
                   "ranked_entangler_groupings", "grouping", "entanglers", "ent">>,
     QCCvqe  |-> <<"U_MF", "U_ENT", "U_QCC", "E", "initial_vals", "result">>]

\* A name that is not bound in the namespace.
Undef == [tag |-> "undef"]

Bound(n) == user_ns[n] # Undef

\* Where and when an object was made: the cell, the number of its execution
\* and the statement.
Stamp == [by |-> cell, n |-> execution_counter, stmt |-> pc]

Init ==
    /\ user_ns = [n \in Names |-> Undef]
    /\ cell = Idle
    /\ pc = 0
    /\ execution_counter = 0
    /\ execution_count = [c \in Cells |-> 0]
    /\ outputs = [c \in Cells |-> [status |-> "none", stmt |-> 0]]
    /\ before = [n \in Names |-> Undef]

\* The user runs a cell: the kernel numbers the execution.
RunCell(c) ==
    /\ cell = Idle
    /\ execution_counter < MaxExec
    /\ cell' = c
    /\ pc' = 1
    /\ execution_counter' = execution_counter + 1
    /\ execution_count' = [execution_count EXCEPT ![c] = execution_counter + 1]
    /\ outputs' = [outputs EXCEPT ![c] = [status |-> "running", stmt |-> 0]]
    /\ before' = user_ns
    /\ UNCHANGED user_ns

\* Variant of Raise: the exception is swallowed and the cell goes on.
Raise_swallowed ==
    /\ outputs' = [outputs EXCEPT ![cell] = [status |-> "error", stmt |-> pc]]
    /\ IF pc = Len(Targets[cell])
         THEN cell' = Idle /\ pc' = 0
         ELSE cell' = cell /\ pc' = pc + 1
    /\ UNCHANGED <<user_ns, execution_counter, execution_count, before>>

\* An exception leaves the cell: nothing catches it, the rest is skipped.
Raise ==
    /\ cell' = Idle
    /\ pc' = 0
    /\ outputs' = [outputs EXCEPT ![cell] = [status |-> "error", stmt |-> pc]]
    /\ UNCHANGED <<user_ns, execution_counter, execution_count, before>>

\* Control passes to the next statement, or the cell ends normally.
Advance ==
    /\ IF pc = Len(Targets[cell])
         THEN /\ cell' = Idle
              /\ pc' = 0
              /\ outputs' = [outputs EXCEPT ![cell] = [status |-> "ok", stmt |-> pc]]
         ELSE /\ pc' = pc + 1
              /\ UNCHANGED <<cell, outputs>>
    /\ UNCHANGED <<execution_counter, execution_count, before>>

\* Statement i of cell c binds its target to value, which reads the names in
\* reads (NameError when one is unbound); mayRaise: it calls into a library.
Assign(c, i, reads, value, mayRaise) ==
    /\ cell = c
    /\ pc = i
    /\ IF \E r \in reads : ~Bound(r)
         THEN Raise
         ELSE \/ /\ user_ns' = [user_ns EXCEPT ![Targets[c][i]] = value]
                 /\ Advance
              \/ /\ mayRaise
                 /\ Raise

Num(v) == [tag |-> "num", v |-> v]
Str(s) == [tag |-> "str", s |-> s]
Module(m) == [tag |-> "module", name |-> m]

\* A circuit is its sequence of gates; + on circuits appends.
QCircuit(gates) == [tag |-> "QCircuit", gates |-> gates, at |-> Stamp]
CircuitAdd(a, b) == QCircuit(a.gates \o b.gates)

----------------------------------------------------------------------------
\* Cell "setup": imports, threshold, basis.

Setup_np == Assign("setup", 1, {}, Module("numpy"), TRUE)
Setup_tq == Assign("setup", 2, {}, Module("tequila"), TRUE)
Setup_utility == Assign("setup", 3, {}, Module("utility"), TRUE)
Setup_threshold == Assign("setup", 4, {}, Num(ThresholdMicro), FALSE)
Setup_basis == Assign("setup", 5, {}, Str("sto-3g"), FALSE)

\* Cell "trotter".
Trotter_steps == Assign("trotter", 1, {}, Num(TrotterSteps), FALSE)

----------------------------------------------------------------------------
\* The values the library calls return, as records of what they were given.

get_molecular_data == [tag |-> "xyz", mol |-> "h2", geometry |-> Geometry]

Molecule ==
    [tag |-> "Molecule", geometry |-> user_ns["xyz_data"],
     basis_set |-> user_ns["basis"], n_orbitals |-> NOrbitals,
     n_electrons |-> NElectrons, at |-> Stamp]

make_hamiltonian ==
    [tag |-> "Hamiltonian", molecule |-> user_ns["molecule"], at |-> Stamp]

\* Variant of make_uccsd_ansatz: one Trotter step more than asked for.
make_uccsd_ansatz_more_steps ==
    QCircuit(<<[gate |-> "UCCSD", initial_amplitudes |-> "mp2",
                threshold |-> user_ns["threshold"],
                trotter_steps |-> Num(user_ns["trotter_steps"].v + 1)]>>)

make_uccsd_ansatz ==
    QCircuit(<<[gate |-> "UCCSD", initial_amplitudes |-> "mp2",
                threshold |-> user_ns["threshold"],
                trotter_steps |-> user_ns["trotter_steps"]]>>)

\* Variant of ExpectationValue: the objective always takes the UCCSD circuit.
ExpectationValue_uccsd(U) ==
    [tag |-> "Objective", H |-> user_ns["H"], U |-> user_ns["U_UCCSD"], at |-> Stamp]

ExpectationValue(U) ==
    [tag |-> "Objective", H |-> user_ns["H"], U |-> user_ns[U], at |-> Stamp]

minimize(initial_values) ==
    [tag |-> "result", objective |-> user_ns["E"], method |-> "BFGS",
     initial_values |-> initial_values, at |-> Stamp]

hf_occ ==
    [tag |-> "hf_occ", n_qubits |-> 2 * user_ns["molecule"].n_orbitals,
     n_electrons |-> user_ns["molecule"].n_electrons]

\* Variant of generate_QCC_gradient_groupings: a cutoff of its own (1e-3).
generate_QCC_gradient_groupings_own_cutoff ==
    [tag |-> "groupings", H |-> user_ns["H"],
     n_qubits |-> 2 * user_ns["molecule"].n_orbitals,
     hf |-> user_ns["hf_reference"], cutoff |-> Num(1000 * ThresholdMicro)]

generate_QCC_gradient_groupings ==
    [tag |-> "groupings", H |-> user_ns["H"],
     n_qubits |-> 2 * user_ns["molecule"].n_orbitals,
     hf |-> user_ns["hf_reference"], cutoff |-> user_ns["threshold"]]

get_QCC_entanglers ==
    [tag |-> "entanglers", groupings |-> user_ns["ranked_entangler_groupings"],
     n_ents |-> user_ns["n_ents"],
     n_qubits |-> 2 * user_ns["molecule"].n_orbitals]

construct_QMF_ansatz ==
    QCircuit(<<[gate |-> "QMF", n_qubits |-> 2 * user_ns["molecule"].n_orbitals]>>)

construct_QCC_ansatz ==
    QCircuit(<<[gate |-> "ENT", entanglers |-> user_ns["entanglers"]]>>)

\* Variant of U_QCC = U_MF + U_ENT: the operands swapped.
U_ENT_plus_U_MF == CircuitAdd(user_ns["U_ENT"], user_ns["U_MF"])

U_MF_plus_U_ENT == CircuitAdd(user_ns["U_MF"], user_ns["U_ENT"])

init_qcc_params ==
    [tag |-> "initial_vals", hf |-> user_ns["hf_reference"], E |-> user_ns["E"].at]

----------------------------------------------------------------------------
\* Cell "UCC": the UCCSD VQE.

UCC_xyz_data == Assign("UCC", 1, {"utility"}, get_molecular_data, TRUE)
UCC_molecule == Assign("UCC", 2, {"tq", "xyz_data", "basis"}, Molecule, TRUE)
UCC_H == Assign("UCC", 3, {"molecule"}, make_hamiltonian, TRUE)
UCC_U_UCCSD ==
    Assign("UCC", 4, {"molecule", "threshold", "trotter_steps"}, make_uccsd_ansatz, TRUE)
UCC_E == Assign("UCC", 5, {"tq", "H", "U_UCCSD"}, ExpectationValue("U_UCCSD"), TRUE)
\* Variant of UCC_result: an outcome already held is kept.
UCC_result_kept ==
    Assign("UCC", 6, {"tq", "E"},
           IF Bound("result") THEN user_ns["result"] ELSE minimize(Num(0)), TRUE)

UCC_result == Assign("UCC", 6, {"tq", "E"}, minimize(Num(0)), TRUE)

----------------------------------------------------------------------------
\* Cell "QCCrank": the QCC entangler ranking.

QCCrank_xyz_data == Assign("QCCrank", 1, {"utility"}, get_molecular_data, TRUE)
QCCrank_molecule == Assign("QCCrank", 2, {"tq", "xyz_data", "basis"}, Molecule, TRUE)
QCCrank_hf_reference == Assign("QCCrank", 3, {"utility", "molecule"}, hf_occ, TRUE)
QCCrank_H == Assign("QCCrank", 4, {"molecule"}, make_hamiltonian, TRUE)
QCCrank_n_ents == Assign("QCCrank", 5, {}, Num(NEnts), FALSE)
QCCrank_ranked_entangler_groupings ==
    Assign("QCCrank", 6, {"utility", "H", "molecule", "hf_reference", "threshold"},
           generate_QCC_gradient_groupings, TRUE)
QCCrank_print_groupings ==
    Assign("QCCrank", 7, {"ranked_entangler_groupings"},
           [tag |-> "grouping", of |-> user_ns["ranked_entangler_groupings"].cutoff], FALSE)
QCCrank_entanglers ==
    Assign("QCCrank", 8, {"utility", "ranked_entangler_groupings", "n_ents", "molecule"},
           get_QCC_entanglers, TRUE)
QCCrank_print_entanglers ==
    Assign("QCCrank", 9, {"entanglers"},
           [tag |-> "ent", of |-> user_ns["entanglers"].n_ents], FALSE)

----------------------------------------------------------------------------
\* Cell "QCCvqe": the QCC VQE.

QCCvqe_U_MF == Assign("QCCvqe", 1, {"utility", "molecule"}, construct_QMF_ansatz, TRUE)
QCCvqe_U_ENT == Assign("QCCvqe", 2, {"utility", "entanglers"}, construct_QCC_ansatz, TRUE)
QCCvqe_U_QCC == Assign("QCCvqe", 3, {"U_MF", "U_ENT"}, U_MF_plus_U_ENT, TRUE)
QCCvqe_E == Assign("QCCvqe", 4, {"tq", "H", "U_QCC"}, ExpectationValue("U_QCC"), TRUE)
QCCvqe_initial_vals ==
    Assign("QCCvqe", 5, {"utility", "hf_reference", "E"}, init_qcc_params, TRUE)
QCCvqe_result ==
    Assign("QCCvqe", 6, {"tq", "initial_vals", "E"}, minimize(user_ns["initial_vals"]), TRUE)

----------------------------------------------------------------------------
Next ==
    \/ \E c \in Cells : RunCell(c)
    \/ Setup_np
    \/ Setup_tq
    \/ Setup_utility
    \/ Setup_threshold
    \/ Setup_basis
    \/ Trotter_steps
    \/ UCC_xyz_data
    \/ UCC_molecule
    \/ UCC_H
    \/ UCC_U_UCCSD
    \/ UCC_E
    \/ UCC_result
    \/ QCCrank_xyz_data
    \/ QCCrank_molecule
    \/ QCCrank_hf_reference
    \/ QCCrank_H
    \/ QCCrank_n_ents
    \/ QCCrank_ranked_entangler_groupings
    \/ QCCrank_print_groupings
    \/ QCCrank_entanglers
    \/ QCCrank_print_entanglers
    \/ QCCvqe_U_MF
    \/ QCCvqe_U_ENT
    \/ QCCvqe_U_QCC
    \/ QCCvqe_E
    \/ QCCvqe_initial_vals
    \/ QCCvqe_result

Spec == Init /\ [][Next]_vars

----------------------------------------------------------------------------
\* Properties.

\* Stamp s is earlier than stamp t.
Before(s, t) == s.n < t.n \/ (s.n = t.n /\ s.stmt < t.stmt)

\* The statement about to run is the call of tq.minimize.
AtMinimize == cell \in {"UCC", "QCCvqe"} /\ pc = 6

\* The name of the ansatz circuit of the running optimisation cell.
AnsatzName == IF cell = "UCC" THEN "U_UCCSD" ELSE "U_QCC"

\* The run a cell belongs to: the UCC run is the cell "UCC", the QCC run is
\* the ranking cell followed by the optimisation cell.
RunOf(c) == IF c = "UCC" THEN "UCC" ELSE "QCC"

\* What holds of the objective whenever tq.minimize is about to be called:
\* molecule, Hamiltonian, circuit and objective exist, were made in this order,
\* the Hamiltonian from that molecule, the objective from the Hamiltonian and
\* the circuit now bound, and circuit and objective in this very execution.
LinearOrder ==
    LET e == user_ns["E"] IN
    /\ e # Undef
    /\ e.H # Undef
    /\ e.U # Undef
    /\ e.H.molecule # Undef
    /\ Before(e.H.molecule.at, e.H.at)
    /\ Before(e.H.at, e.U.at)
    /\ Before(e.U.at, e.at)
    /\ e.H = user_ns["H"]
    /\ e.U = user_ns[AnsatzName]
    /\ e.at.n = execution_counter
    /\ e.U.at.n = execution_counter

\* C1 as stated: whenever the minimizer is invoked, molecule, Hamiltonian,
\* circuit and objective were built in this order and the Hamiltonian and the
\* circuit of the objective were built in the same run (UCC or QCC) as the
\* one that invokes the minimizer.
C1_SameRun ==
    AtMinimize =>
        /\ LinearOrder
        /\ RunOf(user_ns["E"].H.at.by) = RunOf(cell)
        /\ RunOf(user_ns["E"].U.at.by) = RunOf(cell)

\* C1 amended: whenever the minimizer is invoked, molecule, Hamiltonian,
\* circuit and objective were built in this order, circuit and objective in
\* the execution that invokes the minimizer; in the UCC cell the Hamiltonian
\* was built in that execution too, in the QCC optimisation cell it was built
\* by an earlier execution of the ranking cell or of the UCC cell.
C1_LinearOrder ==
    AtMinimize =>
        /\ LinearOrder
        /\ cell = "UCC" => user_ns["E"].H.at = [by |-> "UCC", n |-> execution_counter, stmt |-> 3]
        /\ cell = "QCCvqe" =>
              /\ user_ns["E"].H.at.by \in {"UCC", "QCCrank"}
              /\ user_ns["E"].H.at.n < execution_counter

\* The QCC optimisation cell is about to minimize an objective whose
\* Hamiltonian the UCC cell built.
C1_Witness ==
    /\ cell = "QCCvqe"
    /\ pc = 6
    /\ user_ns["E"].H.at.by = "UCC"

\* C2: a cell whose statement raised is not running any more, and right after
\* it the names its failing and later statements bind hold what they held
\* when the cell was started.
C2_NoRecovery ==
    \A c \in Cells :
        outputs[c].status = "error" =>
            /\ cell # c
            /\ (cell = Idle /\ execution_count[c] = execution_counter) =>
                  \A i \in outputs[c].stmt .. Len(Targets[c]) :
                      user_ns[Targets[c][i]] = before[Targets[c][i]]

\* tq.minimize raised in the UCC cell while an earlier result was held, and
\* that result is still held.
C2_Witness ==
    /\ cell = Idle
    /\ outputs["UCC"] = [status |-> "error", stmt |-> 6]
    /\ execution_count["UCC"] = execution_counter
    /\ before["result"] # Undef
    /\ user_ns["result"] = before["result"]
    /\ user_ns["E"] # before["E"]

\* C3: the UCCSD ansatz is made with trotter_steps = 1: the trotter cell was
\* executed before every execution of the UCC cell that made the ansatz, and
\* the value passed is 1.
C3_SingleTrotterStep ==
    /\ Bound("U_UCCSD") =>
          /\ user_ns["U_UCCSD"].gates[1].trotter_steps = Num(1)
          /\ execution_count["trotter"] > 0
    /\ (cell = "UCC" /\ pc = 4 /\ execution_count["trotter"] > 0) =>
          user_ns["trotter_steps"] = Num(1)

\* The UCC cell has made its ansatz.
C3_Witness ==
    /\ Bound("U_UCCSD")
    /\ user_ns["U_UCCSD"].at.by = "UCC"
    /\ execution_count["trotter"] < execution_count["UCC"]

\* C4: the circuit U_QCC, and the circuit of every objective the QCC
\* optimisation cell builds, is the mean-field part followed by the
\* entangling part.
C4_MeanFieldFirst ==
    /\ Bound("U_QCC") =>
          /\ Len(user_ns["U_QCC"].gates) = 2
          /\ user_ns["U_QCC"].gates[1].gate = "QMF"
          /\ user_ns["U_QCC"].gates[2].gate = "ENT"
    /\ (Bound("E") /\ user_ns["E"].at.by = "QCCvqe") =>
          /\ user_ns["E"].U.gates[1].gate = "QMF"
          /\ user_ns["E"].U.gates[2].gate = "ENT"

\* The QCC optimisation cell has built its objective.
C4_Witness ==
    /\ Bound("E")
    /\ user_ns["E"].at.by = "QCCvqe"
    /\ user_ns["E"].U = user_ns["U_QCC"]

\* C5: the UCCSD ansatz and the QCC ranking are made with the same cutoff,
\* the value 1e-6 of threshold.
C5_SameCutoff ==
    /\ Bound("U_UCCSD") => user_ns["U_UCCSD"].gates[1].threshold = Num(1)
    /\ Bound("ranked_entangler_groupings") =>
          user_ns["ranked_entangler_groupings"].cutoff = Num(1)
    /\ (Bound("U_UCCSD") /\ Bound("ranked_entangler_groupings")) =>
          user_ns["U_UCCSD"].gates[1].threshold
              = user_ns["ranked_entangler_groupings"].cutoff

\* Both the UCCSD ansatz and the QCC ranking have been made.
C5_Witness ==
    /\ Bound("U_UCCSD")
    /\ Bound("ranked_entangler_groupings")

\* After both optimisation cells have run to their end, E and result are
\* those of the one executed last.
LastWins ==
    (outputs["UCC"].status = "ok" /\ outputs["QCCvqe"].status = "ok") =>
        LET last == IF execution_count["UCC"] > execution_count["QCCvqe"]
                      THEN "UCC" ELSE "QCCvqe"
            at == [by |-> last, n |-> execution_count[last]]
        IN  /\ user_ns["result"].at = [by |-> at.by, n |-> at.n, stmt |-> 6]
            /\ user_ns["result"].objective = user_ns["E"]
            /\ user_ns["E"].at.by = last
            /\ user_ns["E"].at.n = at.n

\* No step of an optimisation cell changes threshold, basis, trotter_steps or
\* n_ents; no step of the QCC optimisation cell changes molecule, H,
\* entanglers or hf_reference.
OptimisationFrame ==
    /\ cell \in {"UCC", "QCCvqe"} =>
          \A n \in {"threshold", "basis", "trotter_steps", "n_ents"} :
              user_ns'[n] = user_ns[n]
    /\ cell = "QCCvqe" =>
          \A n \in {"molecule", "H", "entanglers", "hf_reference"} :
              user_ns'[n] = user_ns[n]

\* C6: both optimisation cells write E and result, so after both have run
\* only the outcome of the one executed last is held; and they leave the
\* names above alone.
C6_SharedOutcome == [] LastWins /\ [][OptimisationFrame]_vars

\* Both optimisation cells have run to their end, the QCC one last.
C6_Witness ==
    /\ outputs["UCC"].status = "ok"
    /\ outputs["QCCvqe"].status = "ok"
    /\ execution_count["UCC"] < execution_count["QCCvqe"]
    /\ user_ns["result"].at.by = "QCCvqe"

====
